---- MODULE Spec2Model ----
(***************************************************************************)
(* Model of main.py: a FastAPI service whose POST /search/ endpoint        *)
(* validates a SearchRequest, checks the Google credentials read at        *)
(* startup, calls the Custom Search provider once and, when full_text is   *)
(* set, fetches every result's page one after the other.                   *)
(*                                                                         *)
(* Python dicts (the JSON payload, a provider item, a result_dict, a       *)
(* response body) are functions whose DOMAIN is the set of keys present.   *)
(* A formatted string is a record [parts, len]: the pieces it was built    *)
(* from and its length in characters, so that slicing and concatenation    *)
(* are computed on the length as Python computes them.                     *)
(***************************************************************************)
EXTENDS Integers, Sequences, FiniteSets, TLC

\* Largest number of items in a provider response of the model.
MaxItems == 3

\* Python's None (dict.get of an absent key, os.getenv of an unset variable).
None == "<None>"

\* f"Error fetching text: " is 21 characters long.
ErrorPrefixLen == 21

\* The slice [:1000] applied to the joined paragraph text.
MaxFullText == 1000

--------------------------------------------------------------------------
(* Inputs *)

\* os.getenv(...): None when unset, "" when set to nothing, else the value.
EnvValues == {None, "", "set"}

Keys == {"query", "lang_code", "num", "full_text"}

NumInputs == {0, 1, 10, 11}

FullPayloads ==
    [query : {"q"}, lang_code : {"ko"}, num : NumInputs, full_text : BOOLEAN]

\* Every JSON body: any subset of the four keys present.
Payloads == { [k \in K |-> p[k]] : K \in SUBSET Keys, p \in FullPayloads }

\* Items the provider may return; item.get(k) is None for an omitted key.
ProviderItems ==
    { [title |-> "T1", link |-> "u1", snippet |-> "S1"],
      [title |-> "T2", link |-> "u2", snippet |-> "S2"],
      [title |-> "T3", link |-> "", snippet |-> "S3"],
      [title |-> "T4", snippet |-> "S4"],
      [link |-> "u1"] }

RECURSIVE SeqsOfLen(_, _)
SeqsOfLen(S, n) ==
    IF n = 0 THEN {<<>>}
    ELSE { Append(s, x) : s \in SeqsOfLen(S, n - 1), x \in S }

SeqsUpTo(S, n) == UNION { SeqsOfLen(S, k) : k \in 0..n }

\* What service.cse().list(...).execute() may return: a dict without
\* 'items', or with 'items' holding any list (the provider decides its size).
ProviderResponses ==
    { [kind |-> "customsearch#search"] }
    \cup { [kind |-> "customsearch#search", items |-> s] :
             s \in SeqsUpTo(ProviderItems, MaxItems) }

\* Exceptions of build() and execute(): str(e) is text, len(str(e)) is len.
ProviderErrors ==
    { [type |-> "HttpError", text |-> "quota exceeded", len |-> 14],
      [type |-> "ServerNotFoundError", text |-> "unable to find the server", len |-> 25] }

\* Exceptions of requests.get / BeautifulSoup for a link that names a URL.
FetchErrors ==
    { [type |-> "Timeout", text |-> "read timed out", len |-> 14],
      [type |-> "ParserRejectedMarkup", text |-> "rejected markup", len |-> 979],
      [type |-> "ConnectionError", text |-> "max retries exceeded", len |-> 980] }

\* requests.get(None) and requests.get("") raise before any connection.
MissingSchema(link) ==
    [type |-> "MissingSchema", text |-> "Invalid URL",
     len |-> IF link = None THEN 71 ELSE 63]

\* Pages: the lengths of the texts of the <p> elements of the document.
Pages == { <<5>>, <<499, 500>>, <<500, 500>> }

IsUrl(link) == link # None /\ link # ""

\* The outcomes of the try block for one link.
FetchOutcomes(link) ==
    IF IsUrl(link)
    THEN { [ok |-> TRUE, paragraphs |-> p] : p \in Pages }
         \cup { [ok |-> FALSE, exc |-> e] : e \in FetchErrors }
    ELSE { [ok |-> FALSE, exc |-> MissingSchema(link)] }

--------------------------------------------------------------------------
(* Pure helpers *)

\* dict.get(k): the value, or None when the key is absent.
ItemGet(item, k) == IF k \in DOMAIN item THEN item[k] ELSE None

\* Faulty variant of Truthy: a test against None only (`is not None`).
TruthyNotNone(v) == v # None

\* Python truthiness of an optional string: None and "" are falsy.
Truthy(v) == v # None /\ v # ""

RECURSIVE SumSeq(_)
SumSeq(s) == IF s = <<>> THEN 0 ELSE Head(s) + SumSeq(Tail(s))

\* ' '.join(texts): the texts with one space between neighbours.
JoinLen(paragraphs) ==
    IF paragraphs = <<>> THEN 0
    ELSE SumSeq(paragraphs) + (Len(paragraphs) - 1)

\* s[:n]
Slice(s, n) == [s EXCEPT !.len = IF s.len > n THEN n ELSE s.len]

\* ' '.join([p.get_text() for p in paragraphs])[:1000]
FullContent(link, paragraphs) ==
    Slice([parts |-> <<"text of", link>>, len |-> JoinLen(paragraphs)],
          MaxFullText)

\* f"Error fetching text: {str(e)}"
ErrorText(e) ==
    [parts |-> <<"Error fetching text: ", e.text>>,
     len |-> ErrorPrefixLen + e.len]

\* The dict built from one provider item.
ResultDict(item) ==
    [title |-> ItemGet(item, "title"),
     link |-> ItemGet(item, "link"),
     snippet |-> ItemGet(item, "snippet")]

\* result_dict["full_text"] = v
WithFullText(rd, v) == rd @@ [full_text |-> v]

\* Faulty variant of NumValid: the upper limit le=10 left out.
NumValidNoUpper(n) == n >= 1

\* Field(..., ge=1, le=10)
NumValid(n) == n >= 1 /\ n <= 10

\* pydantic's validation of the body against SearchRequest.
Validates(p) ==
    /\ "query" \in DOMAIN p
    /\ "num" \in DOMAIN p
    /\ NumValid(p.num)
    /\ "full_text" \in DOMAIN p

\* The SearchRequest built from a valid body; lang_code defaults to 'en'.
ParseRequest(p) ==
    [query |-> p.query,
     lang_code |-> IF "lang_code" \in DOMAIN p THEN p.lang_code ELSE "en",
     num |-> p.num,
     full_text |-> p.full_text]

\* not GOOGLE_API_KEY or not GOOGLE_CSE_ID
NotConfigured(cfg) == ~Truthy(cfg.GOOGLE_API_KEY) \/ ~Truthy(cfg.GOOGLE_CSE_ID)

ConfigDetail == <<"Server is not configured with Google API credentials.">>

\* f"Google Search API error: {str(e)}"
ProviderDetail(e) == <<"Google Search API error: ", e.text>>

\* Faulty variant of AppendResult: formatted_results.insert(0, result_dict).
PrependResult(results, rd) == <<rd>> \o results

\* formatted_results.append(result_dict)
AppendResult(results, rd) == Append(results, rd)

\* Faulty variant of ResponseBody: the test `if not search_results` left out.
ResponseBodyNoMessage(search_results) == [results |-> search_results]

\* The body search() returns for the list perform_google_search returned.
ResponseBody(search_results) ==
    IF search_results = <<>>
    THEN [message |-> "No results found.", results |-> <<>>]
    ELSE [results |-> search_results]

--------------------------------------------------------------------------
(* State *)

VARIABLES
    config,             \* GOOGLE_API_KEY, GOOGLE_CSE_ID read at startup
    payload,            \* the JSON body of the request being handled, if any
    request,            \* the validated SearchRequest
    pc,                 \* where the handling of the request stands
    result,             \* what execute() returned
    formatted_results,  \* the list the loop builds
    idx,                \* position of the loop in result['items'] (from 1)
    response,           \* the HTTP response, once sent
    providerCalls,      \* history: the arguments of every execute()
    providerErrors,     \* history: the exceptions execute() raised
    fetchLog,           \* history: the argument of every requests.get
    outcomes            \* history: the outcome of every finished fetch

vars == <<config, payload, request, pc, result, formatted_results, idx,
          response, providerCalls, providerErrors, fetchLog, outcomes>>

NoPayload == [none |-> TRUE]
NoRequest == [query |-> None, lang_code |-> None, num |-> 0, full_text |-> FALSE]
NoResult == [kind |-> "none"]
NoResponse == [status |-> 0, body |-> [pending |-> TRUE]]

Init ==
    /\ config \in [GOOGLE_API_KEY : EnvValues, GOOGLE_CSE_ID : EnvValues]
    /\ payload = NoPayload
    /\ request = NoRequest
    /\ pc = "idle"
    /\ result = NoResult
    /\ formatted_results = <<>>
    /\ idx = 1
    /\ response = NoResponse
    /\ providerCalls = <<>>
    /\ providerErrors = <<>>
    /\ fetchLog = <<>>
    /\ outcomes = <<>>

--------------------------------------------------------------------------
(* Operations *)

Item == result.items[idx]

\* A POST /search/ arrives with some JSON body.
ReceiveRequest ==
    /\ pc = "idle"
    /\ payload' \in Payloads
    /\ pc' = "validate"
    /\ UNCHANGED <<config, request, result, formatted_results, idx, response,
                   providerCalls, providerErrors, fetchLog, outcomes>>

\* The request body is validated before search() runs; a body that fails
\* is answered 422 and search() is never entered.
ValidateRequest ==
    /\ pc = "validate"
    /\ IF Validates(payload)
       THEN /\ request' = ParseRequest(payload)
            /\ pc' = "search"
            /\ response' = response
       ELSE /\ request' = request
            /\ pc' = "done"
            /\ response' = [status |-> 422,
                            body |-> [detail |-> <<"validation error">>]]
    /\ UNCHANGED <<config, payload, result, formatted_results, idx,
                   providerCalls, providerErrors, fetchLog, outcomes>>

\* search(): the credentials check that precedes perform_google_search.
CheckCredentials ==
    /\ pc = "search"
    /\ IF NotConfigured(config)
       THEN /\ pc' = "done"
            /\ response' = [status |-> 500, body |-> [detail |-> ConfigDetail]]
       ELSE /\ pc' = "build"
            /\ response' = response
    /\ UNCHANGED <<config, payload, request, result, formatted_results, idx,
                   providerCalls, providerErrors, fetchLog, outcomes>>

\* perform_google_search returned search_results; search() answers.
Respond(search_results) ==
    /\ pc' = "done"
    /\ response' = [status |-> 200, body |-> ResponseBody(search_results)]

\* Faulty variant of RaiseProviderError: the except clause returns [].
SwallowProviderError(e) == Respond(<<>>)

\* The outer except: the exception becomes an HTTPException with status 500.
RaiseProviderError(e) ==
    /\ pc' = "done"
    /\ response' = [status |-> 500, body |-> [detail |-> ProviderDetail(e)]]

\* build("customsearch", "v1", developerKey=GOOGLE_API_KEY)
BuildService ==
    /\ pc = "build"
    /\ \/ pc' = "execute" /\ response' = response
       \/ \E e \in ProviderErrors : RaiseProviderError(e)
    /\ UNCHANGED <<config, payload, request, result, formatted_results, idx,
                   providerCalls, providerErrors, fetchLog, outcomes>>

\* The keyword arguments of service.cse().list(...).
ListArgs ==
    [q |-> request.query,
     cx |-> config.GOOGLE_CSE_ID,
     lr |-> <<"lang_", request.lang_code>>,
     num |-> request.num]

\* service.cse().list(...).execute(), then the test for 'items'.
ExecuteSearch ==
    /\ pc = "execute"
    /\ providerCalls' = Append(providerCalls, ListArgs)
    /\ \/ \E e \in ProviderErrors :
            /\ providerErrors' = Append(providerErrors, e)
            /\ RaiseProviderError(e)
            /\ UNCHANGED <<result, formatted_results, idx>>
       \/ \E r \in ProviderResponses :
            /\ result' = r
            /\ providerErrors' = providerErrors
            /\ IF "items" \in DOMAIN r
               THEN /\ formatted_results' = <<>>
                    /\ idx' = 1
                    /\ pc' = "loop"
                    /\ response' = response
               ELSE /\ Respond(<<>>)
                    /\ UNCHANGED <<formatted_results, idx>>
    /\ UNCHANGED <<config, payload, request, fetchLog, outcomes>>

\* Faulty variant of WantsFullText: the flag is not looked at.
AlwaysFullText(req) == TRUE

\* if full_text:
WantsFullText(req) == req.full_text

\* One iteration of the for loop up to the call of requests.get, or to its
\* end when full_text is not set.
LoopItem ==
    /\ pc = "loop"
    /\ idx <= Len(result.items)
    /\ IF WantsFullText(request)
       THEN /\ fetchLog' = Append(fetchLog, ItemGet(Item, "link"))
            /\ pc' = "fetch"
            /\ UNCHANGED <<formatted_results, idx>>
       ELSE /\ formatted_results' = AppendResult(formatted_results, ResultDict(Item))
            /\ idx' = idx + 1
            /\ UNCHANGED <<fetchLog, pc>>
    /\ UNCHANGED <<config, payload, request, result, response, providerCalls,
                   providerErrors, outcomes>>

\* result_dict["full_text"] = v; formatted_results.append(result_dict)
StoreFullText(v) ==
    /\ formatted_results' =
           AppendResult(formatted_results, WithFullText(ResultDict(Item), v))
    /\ idx' = idx + 1
    /\ pc' = "loop"
    /\ response' = response

\* Faulty variant of CatchFetchError: no inner try, so the exception reaches
\* the outer except and ends the request.
PropagateFetchError(e) ==
    /\ RaiseProviderError(e)
    /\ UNCHANGED <<formatted_results, idx>>

\* except Exception as e: the error string takes the place of the text.
CatchFetchError(e) == StoreFullText(ErrorText(e))

\* requests.get returns or raises, the page is parsed, the item is stored.
FetchReturn ==
    /\ pc = "fetch"
    /\ \E o \in FetchOutcomes(ItemGet(Item, "link")) :
         /\ outcomes' = Append(outcomes, o)
         /\ IF o.ok
            THEN StoreFullText(FullContent(ItemGet(Item, "link"), o.paragraphs))
            ELSE CatchFetchError(o.exc)
    /\ UNCHANGED <<config, payload, request, result, providerCalls,
                   providerErrors, fetchLog>>

\* return formatted_results, after the last item.
ReturnResults ==
    /\ pc = "loop"
    /\ idx > Len(result.items)
    /\ Respond(formatted_results)
    /\ UNCHANGED <<config, payload, request, result, formatted_results, idx,
                   providerCalls, providerErrors, fetchLog, outcomes>>

\* The request is over: nothing but the configuration outlives it.
EndRequest ==
    /\ pc = "done"
    /\ payload' = NoPayload
    /\ request' = NoRequest
    /\ pc' = "idle"
    /\ result' = NoResult
    /\ formatted_results' = <<>>
    /\ idx' = 1
    /\ response' = NoResponse
    /\ providerCalls' = <<>>
    /\ providerErrors' = <<>>
    /\ fetchLog' = <<>>
    /\ outcomes' = <<>>
    /\ UNCHANGED config

Next ==
    \/ ReceiveRequest
    \/ ValidateRequest
    \/ CheckCredentials
    \/ BuildService
    \/ ExecuteSearch
    \/ LoopItem
    \/ FetchReturn
    \/ ReturnResults
    \/ EndRequest

Spec == Init /\ [][Next]_vars

TypeOK ==
    /\ pc \in {"idle", "validate", "search", "build", "execute", "loop", "fetch", "done"}
    /\ response.status \in {0, 200, 422, 500}
    /\ idx \in 1..(MaxItems + 1)

--------------------------------------------------------------------------
(* Properties *)

\* The request ended in a success response.
Succeeded == pc = "done" /\ response.status = 200

\* The results sequence of the response sent.
Results == response.body.results

\* The provider's items of the request being handled (none before execute()).
Items == IF "items" \in DOMAIN result THEN result.items ELSE <<>>

LinkOf(i) == IF "link" \in DOMAIN Items[i] THEN Items[i].link ELSE None

NonEmptyLink(l) == l # None /\ l # ""

Min(a, b) == IF a < b THEN a ELSE b

\* C1: a success response to a valid request with full_text = true has a
\* full_text of at most 1000 characters on every result item, the error
\* string of a failed fetch included.
C1_FullTextAtMost1000 ==
    (Succeeded /\ Validates(payload) /\ payload.full_text) =>
        \A i \in 1..Len(Results) :
            /\ "full_text" \in DOMAIN Results[i]
            /\ Results[i].full_text.len <= 1000

\* C2: a success response to a valid request with num = k holds at most k
\* results, whatever number of items the provider returned.
C2_AtMostNumResults ==
    (Succeeded /\ Validates(payload)) => Len(Results) <= payload.num

\* C3: with full_text = true a failed fetch or parse never aborts the request
\* and touches no other item: the request is never answered with an error,
\* the response holds one result per provider item, the item whose fetch
\* failed carries the error string, and every item carries its own title,
\* link and snippet and the full_text its own fetch outcome determines.
C3_FetchFailureContained ==
    (request.full_text /\ "items" \in DOMAIN result) =>
        /\ response.status \in {0, 200}
        /\ Len(formatted_results) = Len(outcomes)
        /\ pc = "done" =>
              /\ response.status = 200
              /\ Len(Results) = Len(Items)
              /\ Results = formatted_results
        /\ \A j \in 1..Len(formatted_results) :
              LET r == formatted_results[j]
                  o == outcomes[j]
              IN  /\ DOMAIN r = {"title", "link", "snippet", "full_text"}
                  /\ r.link = LinkOf(j)
                  /\ r.title = (IF "title" \in DOMAIN Items[j]
                                THEN Items[j].title ELSE None)
                  /\ r.snippet = (IF "snippet" \in DOMAIN Items[j]
                                  THEN Items[j].snippet ELSE None)
                  /\ o.ok =>
                        /\ r.full_text.parts = <<"text of", LinkOf(j)>>
                        /\ r.full_text.len = Min(JoinLen(o.paragraphs), 1000)
                  /\ ~o.ok =>
                        /\ r.full_text.parts = <<"Error fetching text: ", o.exc.text>>
                        /\ r.full_text.len = 21 + o.exc.len

\* A request answered 200 whose first fetch timed out and whose second
\* fetch returned a page.
C3_Witness ==
    /\ Succeeded
    /\ request.full_text
    /\ Len(outcomes) = 2
    /\ ~outcomes[1].ok
    /\ outcomes[1].exc.type = "Timeout"
    /\ outcomes[2].ok
    /\ Len(Results) = 2

\* A request is being handled whose num is missing or lies outside [1,10].
NumRejected ==
    /\ pc # "idle"
    /\ \/ "num" \notin DOMAIN payload
       \/ payload.num < 1
       \/ payload.num > 10

\* C4: a request whose num is missing or outside [1,10] is answered with a
\* validation failure, and at no point of its handling is the provider
\* called or a page fetched.
C4_InvalidNumRejected ==
    NumRejected =>
        /\ pc \in {"validate", "done"}
        /\ pc = "done" => response.status = 422
        /\ providerCalls = <<>>
        /\ fetchLog = <<>>

\* A body whose only fault is num = 11, rejected, on a configured server.
C4_Witness ==
    /\ pc = "done"
    /\ DOMAIN payload = {"query", "lang_code", "num", "full_text"}
    /\ payload.num = 11
    /\ response.status = 422
    /\ config.GOOGLE_API_KEY = "set"
    /\ config.GOOGLE_CSE_ID = "set"

\* One of the two credentials is unset or empty.
CredentialsAbsent ==
    \/ config.GOOGLE_API_KEY \in {None, ""}
    \/ config.GOOGLE_CSE_ID \in {None, ""}

\* C5: with GOOGLE_API_KEY or GOOGLE_CSE_ID unset or empty, every valid
\* request ends in HTTP 500 with the configuration-error detail, and the
\* provider is never called for it.
C5_MissingCredentials ==
    (CredentialsAbsent /\ Validates(payload)) =>
        /\ pc \in {"validate", "search", "done"}
        /\ pc = "done" =>
              response =
                  [status |-> 500,
                   body |-> [detail |->
                     <<"Server is not configured with Google API credentials.">>]]
        /\ providerCalls = <<>>
        /\ fetchLog = <<>>

\* A valid request answered 500 where the key is set and the engine id empty.
C5_Witness ==
    /\ pc = "done"
    /\ Validates(payload)
    /\ config.GOOGLE_API_KEY = "set"
    /\ config.GOOGLE_CSE_ID = ""
    /\ response.status = 500

\* execute() returned, and with no item: 'items' absent, or an empty list.
ZeroItems ==
    /\ result # NoResult
    /\ \/ "items" \notin DOMAIN result
       \/ result.items = <<>>

\* C6: when the provider call succeeds with zero items, the response is
\* exactly {"message": "No results found.", "results": []} with HTTP 200.
C6_NoResultsFound ==
    (pc = "done" /\ ZeroItems) =>
        response = [status |-> 200,
                    body |-> [message |-> "No results found.", results |-> <<>>]]

\* The provider returned 'items' as an empty list and the request is answered.
C6_Witness ==
    /\ pc = "done"
    /\ "items" \in DOMAIN result
    /\ result.items = <<>>
    /\ Len(providerCalls) = 1
    /\ response.status = 200

\* C7: for a valid request with full_text = false no result item holds a
\* full_text key, whatever the provider returned (and no page is fetched).
C7_NoFullTextKey ==
    (Validates(payload) /\ ~payload.full_text) =>
        /\ \A i \in 1..Len(formatted_results) :
              "full_text" \notin DOMAIN formatted_results[i]
        /\ Succeeded =>
              \A i \in 1..Len(Results) : "full_text" \notin DOMAIN Results[i]
        /\ fetchLog = <<>>

\* A request with full_text = false answered with two results.
C7_Witness ==
    /\ Succeeded
    /\ ~payload.full_text
    /\ Len(Results) = 2

\* C8: when execute() raises, the request ends in HTTP 500 whose detail
\* carries the upstream error text, no results are returned, and exactly one
\* provider call was made for the request.
C8_ProviderErrorNoRetry ==
    /\ Len(providerCalls) <= 1
    /\ providerErrors # <<>> =>
          /\ pc = "done"
          /\ response.status = 500
          /\ DOMAIN response.body = {"detail"}
          /\ response.body.detail =
                 <<"Google Search API error: ", providerErrors[1].text>>
          /\ Len(providerErrors) = 1
          /\ Len(providerCalls) = 1
          /\ formatted_results = <<>>
          /\ fetchLog = <<>>

\* execute() raised an HttpError and the request is answered.
C8_Witness ==
    /\ pc = "done"
    /\ providerErrors # <<>>
    /\ providerErrors[1].type = "HttpError"
    /\ response.status = 500

\* The links of the provider's items, in order.
ItemLinks == [i \in 1..Len(Items) |-> LinkOf(i)]

\* C9: with full_text = true a page fetch is attempted for exactly the items
\* that have a non-empty link: none for an absent or empty link, one for
\* each non-empty link.
C9_FetchOnlyNonEmptyLinks ==
    /\ \A i \in 1..Len(fetchLog) : NonEmptyLink(fetchLog[i])
    /\ (Succeeded /\ request.full_text) =>
          fetchLog = SelectSeq(ItemLinks, NonEmptyLink)

\* C10: the results map the provider's items one to one and in order: as
\* results are built the i-th carries the title, link and snippet of the
\* i-th item, a success response holds as many results as the provider
\* returned items, and with full_text = true the fetches are issued in item
\* order, each one only after the one before it has returned or raised.
C10_OrderPreserved ==
    /\ Len(formatted_results) <= Len(Items)
    /\ \A i \in 1..Len(formatted_results) :
          /\ formatted_results[i].link = LinkOf(i)
          /\ formatted_results[i].title =
                 (IF "title" \in DOMAIN Items[i] THEN Items[i].title ELSE None)
          /\ formatted_results[i].snippet =
                 (IF "snippet" \in DOMAIN Items[i] THEN Items[i].snippet ELSE None)
    /\ Succeeded =>
          /\ Len(Results) = Len(Items)
          /\ \A i \in 1..Len(Results) : Results[i] = formatted_results[i]
    /\ Len(outcomes) <= Len(fetchLog)
    /\ Len(fetchLog) <= Len(outcomes) + 1
    /\ Len(fetchLog) <= Len(Items)
    /\ \A i \in 1..Len(fetchLog) : fetchLog[i] = LinkOf(i)
    /\ (Succeeded /\ request.full_text) => Len(fetchLog) = Len(Items)

\* A success response with two different results after two fetches.
C10_Witness ==
    /\ Succeeded
    /\ request.full_text
    /\ Len(Results) = 2
    /\ Results[1].link = "u2"
    /\ Results[2].link = "u1"
    /\ fetchLog = <<"u2", "u1">>
    /\ Len(outcomes) = 2

====
